---------------------------- MODULE Spec2Model ----------------------------
(***************************************************************************)
(* Model of ubuntu-l10n's fetch / cache pipeline (ubuntu_l10n/scraper.py)  *)
(* and of the window that ubuntu_l10n/app.py puts on it: its worker        *)
(* threads, its idle callbacks, its filter and sort step.                  *)
(*                                                                         *)
(* Time is counted in whole seconds.  A string that the program compares,  *)
(* lower-cases or searches (a package name, a last-edited text, the search *)
(* entry) is the sequence of its characters; other strings are opaque.  A  *)
(* PackageStats object is the tuple                                        *)
(* of its nine fields in declaration order; the dict that asdict() makes   *)
(* of it, and that the cache document stores, is a record keyed by the     *)
(* field names.  An HTML page is the part of it the scraper reads: the     *)
(* batch-navigation caption, whether the statistics table is there, and    *)
(* the table's rows with their cells.                                      *)
(***************************************************************************)
EXTENDS Integers, Sequences, FiniteSets, TLC

VARIABLES
    now,        \* time.time(), in seconds
    cacheFile,  \* content of CACHE_FILE
    th,         \* per worker thread: the frame of its fetch_all_packages call
    lastSaved,  \* history: per key, the entry of the last completed save_cache
    callsLeft,  \* calls the environment may still start
    ticksLeft,  \* clock advances the environment may still make
    win,        \* MainWindow: packages, filtered_packages, _from_cache, ...
    idle,       \* callbacks handed to GLib.idle_add, not yet run
    ran,        \* history: per worker, the callbacks of its fetch that ran
    latest,     \* history: the worker of the fetch started last (0: none)
    input,      \* the argument (page, config file) of a function called alone
    ret         \* what a function called alone returned, or that it raised

\* The variables of the window and of the functions called alone; the steps
\* of fetch_all_packages do not touch them.
uiVars == <<win, idle, ran, latest, input, ret>>

vars == <<now, cacheFile, th, lastSaved, callsLeft, ticksLeft,
          win, idle, ran, latest, input, ret>>

(***************************************************************************)
(* Bounds of the model.                                                    *)
(***************************************************************************)
MaxCalls == 2
MaxTicks == 1
StartTime == 1000

\* Clock advances: around the one-hour limit of the cache.
TickSteps == {3599, 3600, 3601}

\* The (distro, lang) pairs the callers ask for.
Distros == {"noble"}
Langs == {"sv", "pt_BR"}

Workers == {1, 2}

(***************************************************************************)
(* Program constants.                                                      *)
(***************************************************************************)
CACHE_MAX_AGE == 3600
BATCH == 300
MAX_RETRIES == 4

(***************************************************************************)
(* PackageStats and its dict form.                                         *)
(***************************************************************************)
PackageStats(name, translated_pct, untranslated, need_review, changed, total, last_edited, last_editor, translate_url) ==
    <<name, translated_pct, untranslated, need_review, changed,
      total, last_edited, last_editor, translate_url>>

\* dataclasses.asdict(p)
asdict(p) ==
    [name |-> p[1], translated_pct |-> p[2], untranslated |-> p[3],
     need_review |-> p[4], changed |-> p[5], total |-> p[6],
     last_edited |-> p[7], last_editor |-> p[8], translate_url |-> p[9]]

\* Mutant of FromDict: two integer fields change places.
FromDictSwapped(d) ==
    PackageStats(d.name, d.translated_pct, d.need_review, d.untranslated,
                 d.changed, d.total, d.last_edited, d.last_editor,
                 d.translate_url)

\* PackageStats(**d)
FromDict(d) ==
    PackageStats(d.name, d.translated_pct, d.untranslated, d.need_review,
                 d.changed, d.total, d.last_edited, d.last_editor,
                 d.translate_url)

\* The keyword arguments that PackageStats.__init__ takes, none of them with
\* a default (lines 25-33).
FieldNames ==
    {"name", "translated_pct", "untranslated", "need_review", "changed",
     "total", "last_edited", "last_editor", "translate_url"}

\* PackageStats(**d) raises TypeError for a key that is no field and for a
\* field that is no key.
FromDictRaises(d) == DOMAIN d # FieldNames

\* The list comprehension of _dicts_to_packages raises when one of its
\* elements does.
DictsRaise(dicts) == \E i \in DOMAIN dicts : FromDictRaises(dicts[i])

_packages_to_dicts(packages) ==
    [i \in 1..Len(packages) |-> asdict(packages[i])]

_dicts_to_packages(dicts) ==
    [i \in 1..Len(dicts) |-> FromDict(dicts[i])]

(***************************************************************************)
(* The cache document.  The file is missing, holds text that is not JSON   *)
(* ("garbage"), holds JSON that is no object (a list, null), or holds a     *)
(* JSON object; entries maps every key of the key space to its entry,      *)
(* present or not.  An entry is complete when it has both of the keys      *)
(* "data" and "timestamp".                                                 *)
(***************************************************************************)
\* Mutant of _cache_key: the distribution is left out of the key.
_cache_key_of_lang(distro, lang) == "ubuntu_" \o lang

_cache_key(distro, lang) == distro \o "_" \o lang

KeySpace == {_cache_key(d, l) : d \in Distros, l \in Langs}

NoEntry ==
    [present |-> FALSE, complete |-> TRUE, data |-> <<>>, timestamp |-> 0]

\* {"data": data, "timestamp": time}
StoredEntry(data, time) ==
    [present |-> TRUE, complete |-> TRUE, data |-> data, timestamp |-> time]

\* An entry that lacks "data" or "timestamp".
PartialEntry ==
    [present |-> TRUE, complete |-> FALSE, data |-> <<>>, timestamp |-> 0]

EmptyDoc == [k \in KeySpace |-> NoEntry]

MissingFile == [kind |-> "missing", entries |-> EmptyDoc]
GarbageFile == [kind |-> "garbage", entries |-> EmptyDoc]
ListFile == [kind |-> "list", entries |-> EmptyDoc]
NullFile == [kind |-> "null", entries |-> EmptyDoc]

\* json.loads(CACHE_FILE.read_text()) raises for a missing file and for text
\* that is not JSON.
ReadRaises(file) == file.kind \in {"missing", "garbage"}

\* cache[key] = ... (line 128, outside the try) raises TypeError when what
\* json.loads returned is a list or None.
ItemAssignRaises(file) == file.kind \in {"list", "null"}

\* The cache = json.loads(...) / except: cache = {} of save_cache.
ReadDoc(file) == IF ReadRaises(file) THEN EmptyDoc ELSE file.entries

\* json.dumps(cache) written to the file.
WriteDoc(doc) == [kind |-> "object", entries |-> doc]

\* `key in cache` is false for a list and raises for None; entry["data"],
\* entry["timestamp"] raise for an entry without them; the except clause
\* catches every one of these.
load_cache(file, distro, lang) ==
    LET key == _cache_key(distro, lang) IN
    IF file.kind = "object" /\ file.entries[key].present
       /\ file.entries[key].complete
    THEN [found |-> TRUE, data |-> file.entries[key].data,
          timestamp |-> file.entries[key].timestamp]
    ELSE [found |-> FALSE, data |-> <<>>, timestamp |-> 0]

\* Mutant of save_cache: the new entry is written into an empty document
\* instead of the one read.
save_cache_truncating(cache, distro, lang, data, time) ==
    [EmptyDoc EXCEPT ![_cache_key(distro, lang)] = StoredEntry(data, time)]

\* cache[_cache_key(distro, lang)] = {"data": data, "timestamp": time.time()}
save_cache(cache, distro, lang, data, time) ==
    [cache EXCEPT ![_cache_key(distro, lang)] = StoredEntry(data, time)]

(***************************************************************************)
(* HTML pages.  A cell that carries a sort value is [kind, val]: the span  *)
(* is missing, holds text that is no number ("bad"), or holds the number   *)
(* val.                                                                    *)
(***************************************************************************)
Missing == [kind |-> "missing", val |-> 0]
Bad == [kind |-> "bad", val |-> 0]
Num(n) == [kind |-> "num", val |-> n]

\* get_int(cell): the sort value, 0 when the span is missing or no integer.
get_int(cell) == IF cell.kind = "num" THEN cell.val ELSE 0

\* int(cells[5].get_text()): the cell's own text, 0 when it is no integer.
cell_int(cell) == IF cell.kind = "num" THEN cell.val ELSE 0

\* float(sortkeys[0].get_text()) raises ValueError for text that is no number;
\* nothing in parse_page catches it.
PctRaises(row) == row.pct.kind = "bad"

\* Mutant of Skipped: a row whose first cell holds no link is parsed.
SkippedWhenShort(row) == row.ncells < 8

\* A row that parse_page skips: fewer than 8 cells, or no link in the first.
Skipped(row) == row.ncells < 8 \/ ~row.link

\* The PackageStats that parse_page appends for a row it does not skip.
ParseRow(row) ==
    PackageStats(row.name,
                 IF row.pct.kind = "missing" THEN 0 ELSE row.pct.val,
                 get_int(row.untranslated),
                 get_int(row.need_review),
                 get_int(row.changed),
                 cell_int(row.total),
                 row.last_edited,
                 row.last_editor,
                 "https://translations.launchpad.net" \o row.href)

RECURSIVE ParseRows(_)
ParseRows(rows) ==
    IF rows = <<>> THEN <<>>
    ELSE IF Skipped(Head(rows)) THEN ParseRows(Tail(rows))
    ELSE <<ParseRow(Head(rows))>> \o ParseRows(Tail(rows))

\* parse_page(html, distro) raises when a row it does not skip has a
\* percentage that is no number.
ParseRaises(html) ==
    html.table /\ \E i \in 1..Len(html.rows) :
        ~Skipped(html.rows[i]) /\ PctRaises(html.rows[i])

parse_page(html) == IF html.table THEN ParseRows(html.rows) ELSE <<>>

\* get_total_count(html): the number after "of" in the navigation caption,
\* 0 when the caption is missing or holds no such number.
get_total_count(html) ==
    IF html.caption.kind = "num" THEN html.caption.val ELSE 0

(***************************************************************************)
(* The pages the server answers with.                                      *)
(***************************************************************************)
RowApt ==
    [ncells |-> 8, link |-> TRUE, name |-> <<"a", "p", "t">>,
     href |-> "/apt/+translate",
     pct |-> Num(40), untranslated |-> Num(60), need_review |-> Num(3),
     changed |-> Missing, total |-> Num(100),
     last_edited |-> <<"2", "0", "2", "5", "-", "0", "1", "-", "0", "2">>,
     last_editor |-> "Ann"]

RowBash ==
    [ncells |-> 9, link |-> TRUE, name |-> <<"B", "a", "s", "h">>,
     href |-> "/bash/+translate",
     pct |-> Num(90), untranslated |-> Num(5), need_review |-> Bad,
     changed |-> Num(1), total |-> Num(50),
     last_edited |-> <<>>, last_editor |-> ""]

RowShort == [RowApt EXCEPT !.ncells = 7, !.name = <<"s", "h", "o", "r", "t">>]

RowBadPct == [RowApt EXCEPT !.pct = Bad, !.name = <<"b", "a", "d">>]

Html(caption, table, rows) ==
    [caption |-> caption, table |-> table, rows |-> rows]

\* What the server may answer for the first page (offset 0) ...
FirstPages ==
    { Html(Missing, FALSE, <<>>),
      Html(Bad, TRUE, <<RowApt>>),
      Html(Num(300), TRUE, <<RowBash, RowShort>>),
      Html(Num(650), TRUE, <<RowApt>>),
      Html(Num(650), TRUE, <<RowApt, RowBadPct>>) }

\* ... and for a later one; its caption need not repeat the first page's.
LaterPages ==
    { Html(Num(900), TRUE, <<RowBash, RowShort, RowApt>>),
      Html(Num(650), TRUE, <<RowBadPct>>) }

Pages(offset) == IF offset = 0 THEN FirstPages ELSE LaterPages

\* Status of a response; 0 stands for session.get raising (no response).
Statuses == {0, 200, 429, 500}

(***************************************************************************)
(* _request_with_retry, one GET at a time.                                 *)
(***************************************************************************)
\* r.raise_for_status() raises for 4xx and 5xx; session.get raising is an
\* error as well.
IsError(status) == status = 0 \/ (400 <= status /\ status < 600)

RECURSIVE SumSeq(_)
SumSeq(q) == IF q = <<>> THEN 0 ELSE q[1] + SumSeq(Tail(q))

RECURSIVE Pow2(_)
Pow2(n) == IF n = 0 THEN 1 ELSE 2 * Pow2(n - 1)

\* Mutant of Backoff: the exponent starts at 0.
BackoffFromOne(attempt) == Pow2(attempt)

\* wait = 2 ** (attempt + 1)
Backoff(attempt) == Pow2(attempt + 1)

\* Mutant of InLoop: the loop makes one attempt more.
InLoopInclusive(attempt) == attempt <= MAX_RETRIES

\* The GET of attempt `attempt` is inside the for loop (attempts 0..3) or is
\* the final one after it.
InLoop(attempt) == attempt < MAX_RETRIES

\* What one GET answered with `status` leads to: a sleep and another GET,
\* the exception of the call, or its return.
Outcome(attempt, status) ==
    IF InLoop(attempt) /\ status = 429 THEN "retry"
    ELSE IF IsError(status) THEN "raise"
    ELSE "return"

(***************************************************************************)
(* fetch_all_packages: the frame of one call.                              *)
(***************************************************************************)
IdleThread ==
    [pc |-> "idle", distro |-> "", lang |-> "", force |-> FALSE,
     url |-> 0, start |-> 0, total |-> 0, all_packages |-> <<>>,
     attempt |-> 0, gets |-> 0, sleeps |-> <<>>,
     \* r.status_code of the last response: -1 before any, 0 when
     \* session.get raised
     status_code |-> -1,
     \* what the call did so far: offsets requested, callback arguments,
     \* REQUEST_DELAY sleeps
     offsets |-> <<>>, progress |-> <<>>, cache_cb |-> <<>>, delays |-> 0,
     cache |-> EmptyDoc, result |-> <<>>,
     \* history: the file when the call began, the first page's caption
     file0 |-> MissingFile, caption0 |-> Missing]

OffThread == [IdleThread EXCEPT !.pc = "off"]

\* Python's truth value of a list and of a number.
TruthyList(l) == l # <<>>
TruthyNum(n) == n # 0

\* Mutant of ConsultsCache: force is ignored.
ConsultsCacheAlways(force) == TRUE

\* if not force:
ConsultsCache(force) == ~force

\* Mutant of IsFresh: an entry exactly one hour old still counts as fresh.
IsFreshInclusive(age_seconds) == age_seconds <= CACHE_MAX_AGE

\* if age_seconds < 3600:
IsFresh(age_seconds) == age_seconds < CACHE_MAX_AGE

\* age_minutes = int(age_seconds / 60)
AgeMinutes(age_seconds) == age_seconds \div 60

\* Lines 255-259: the call is served from the cache.
CacheHits(file, distro, lang, force, time) ==
    LET c == load_cache(file, distro, lang) IN
    /\ ConsultsCache(force)
    /\ TruthyList(c.data) /\ TruthyNum(c.timestamp)
    /\ IsFresh(time - c.timestamp)

\* Mutant of extend: a record that the list holds already is not added.
extend_unique(all_packages, packages) ==
    all_packages \o
        SelectSeq(packages,
                  LAMBDA p : \A i \in DOMAIN all_packages : all_packages[i] # p)

\* all_packages.extend(packages), lines 278 and 290.
extend(all_packages, packages) == all_packages \o packages

\* Mutant of Delay: the loop does not sleep between pages.
DelaySkipped(t) == t

\* time.sleep(REQUEST_DELAY), line 286.
Delay(t) == [t EXCEPT !.delays = t.delays + 1]

\* Mutant of NewRequest: the attempt number goes on from the last request.
NewRequestKeepingAttempt(t, offset) ==
    [t EXCEPT !.pc = "request", !.url = offset, !.gets = 0,
              !.sleeps = <<>>, !.status_code = -1,
              !.offsets = Append(t.offsets, offset)]

\* A new _request_with_retry call for the page at `offset`.
NewRequest(t, offset) ==
    [t EXCEPT !.pc = "request", !.url = offset, !.attempt = 0, !.gets = 0,
              !.sleeps = <<>>, !.status_code = -1,
              !.offsets = Append(t.offsets, offset)]

\* Mutant of MorePages: the loop runs one round more.
MorePagesOnceMore(start, total) == start < total + BATCH

\* Mutant of MorePages: a page is requested at offset = total as well.
MorePagesInclusive(start, total) == start <= total

\* while start < total:
MorePages(start, total) == start < total

\* start = batch after the first page, start += batch after a later one.
NextStart(t) == IF Len(t.offsets) = 1 THEN BATCH ELSE t.start + BATCH

\* total = get_total_count(resp.text), of the first page only.
TotalAfter(t, html) ==
    IF Len(t.offsets) = 1 THEN get_total_count(html) ELSE t.total

(***************************************************************************)
(* Actions.                                                                *)
(***************************************************************************)
\* MainWindow.__init__ (app.py, lines 215-218, 348, 364): no packages, the
\* first sort option selected, an empty search entry.
NewWindow ==
    [packages |-> <<>>, filtered_packages |-> <<>>, _from_cache |-> FALSE,
     _cache_age |-> 0, sort_key |-> "name_asc", search |-> <<>>,
     \* what the summary label shows: nothing yet (label="", line 374)
     summary |-> [kind |-> "none"]]

None == [kind |-> "none"]

\* The window as constructed, no callback pending or run.
WindowInit ==
    /\ win = NewWindow
    /\ idle = <<>>
    /\ ran = [w \in Workers |->
                [loaded |-> 0, error |-> 0, outcome |-> "none",
                 result |-> <<>>, cache_cb |-> <<>>,
                 \* the time.sleep(wait) calls of its fetch, request by
                 \* request
                 slept |-> <<>>]]
    /\ latest = 0

\* ... and no function called alone.
UiInit ==
    /\ WindowInit
    /\ input = None
    /\ ret = None

Init ==
    /\ UiInit
    /\ now = StartTime
    /\ cacheFile \in {MissingFile, GarbageFile}
    /\ th = [w \in Workers |-> IF w = 1 THEN IdleThread ELSE OffThread]
    /\ lastSaved = EmptyDoc
    /\ callsLeft = MaxCalls
    /\ ticksLeft = MaxTicks

\* Two workers at once: _load_data starts a thread per call and waits for
\* none (app.py, lines 694-707).
InitConc ==
    /\ UiInit
    /\ now = StartTime
    /\ cacheFile \in {MissingFile, GarbageFile}
    /\ th = [w \in Workers |-> IdleThread]
    /\ lastSaved = EmptyDoc
    /\ callsLeft = MaxCalls
    /\ ticksLeft = MaxTicks

\* The wall clock advances.
Tick(d) ==
    /\ ticksLeft > 0
    /\ now' = now + d
    /\ ticksLeft' = ticksLeft - 1
    /\ UNCHANGED <<cacheFile, th, lastSaved, callsLeft>>

\* worker() calls fetch_all_packages(distro, lang, ..., force=force).
Call(w, distro, lang, force) ==
    /\ th[w].pc \in {"idle", "returned", "raised"}
    /\ callsLeft > 0
    /\ callsLeft' = callsLeft - 1
    /\ th' = [th EXCEPT ![w] =
                [IdleThread EXCEPT !.pc = "cache", !.distro = distro,
                                   !.lang = lang, !.force = force,
                                   !.file0 = cacheFile]]
    /\ UNCHANGED <<now, cacheFile, lastSaved, ticksLeft>>

\* Lines 255-264: a fresh entry is handed to cache_cb and returned; the
\* TypeError of _dicts_to_packages (line 261, in no try) leaves the call.
CacheHit(w) ==
    LET t == th[w]
        c == load_cache(cacheFile, t.distro, t.lang)
        packages == _dicts_to_packages(c.data)
    IN
    /\ t.pc = "cache"
    /\ CacheHits(cacheFile, t.distro, t.lang, t.force, now)
    /\ th' = [th EXCEPT ![w] =
                IF DictsRaise(c.data) THEN [t EXCEPT !.pc = "raised"]
                ELSE [t EXCEPT !.pc = "returned", !.result = packages,
                               !.cache_cb = Append(t.cache_cb,
                                   <<packages, AgeMinutes(now - c.timestamp)>>)]]
    /\ UNCHANGED <<now, cacheFile, lastSaved, callsLeft, ticksLeft>>

\* Mutant of CacheMiss: an entry that is not served is deleted from the
\* document.
CacheMissEvicting(w) ==
    LET t == th[w]
        key == _cache_key(t.distro, t.lang)
    IN
    /\ t.pc = "cache"
    /\ ~CacheHits(cacheFile, t.distro, t.lang, t.force, now)
    /\ th' = [th EXCEPT ![w] = NewRequest(t, 0)]
    /\ cacheFile' = IF cacheFile.kind = "object"
                    THEN [cacheFile EXCEPT !.entries[key] = NoEntry]
                    ELSE cacheFile
    /\ UNCHANGED <<now, lastSaved, callsLeft, ticksLeft>>

\* Lines 266-274: no usable entry (or force), the first page is requested.
CacheMiss(w) ==
    LET t == th[w] IN
    /\ t.pc = "cache"
    /\ ~CacheHits(cacheFile, t.distro, t.lang, t.force, now)
    /\ th' = [th EXCEPT ![w] = NewRequest(t, 0)]
    /\ UNCHANGED <<now, cacheFile, lastSaved, callsLeft, ticksLeft>>

\* Lines 139-143: a 429 inside the loop: sleep, then the next attempt.
GetRetry(w) ==
    LET t == th[w] IN
    /\ t.pc = "request"
    /\ Outcome(t.attempt, 429) = "retry"
    /\ th' = [th EXCEPT ![w] =
                [t EXCEPT !.gets = t.gets + 1, !.status_code = 429,
                          !.sleeps = Append(t.sleeps, Backoff(t.attempt)),
                          !.attempt = t.attempt + 1]]
    /\ UNCHANGED <<now, cacheFile, lastSaved, callsLeft, ticksLeft>>

\* Mutant of GetRaise: what was fetched so far is saved before the exception
\* leaves the call.
GetRaiseSavingPartial(w, status) ==
    LET t == th[w]
        key == _cache_key(t.distro, t.lang)
    IN
    /\ t.pc = "request"
    /\ Outcome(t.attempt, status) = "raise"
    /\ th' = [th EXCEPT ![w] = [t EXCEPT !.gets = t.gets + 1, !.pc = "raised",
                                         !.status_code = status]]
    /\ cacheFile' = WriteDoc(save_cache(ReadDoc(cacheFile), t.distro, t.lang,
                                _packages_to_dicts(t.all_packages), now))
    /\ lastSaved' = [lastSaved EXCEPT ![key] = cacheFile'.entries[key]]
    /\ UNCHANGED <<now, callsLeft, ticksLeft>>

\* Mutant of GetRaise: a 5xx answer inside the loop is slept on and retried
\* like a 429.
GetRaiseRetryingServerErrors(w, status) ==
    LET t == th[w] IN
    /\ t.pc = "request"
    /\ Outcome(t.attempt, status) = "raise"
    /\ th' = [th EXCEPT ![w] =
                IF status >= 500 /\ InLoop(t.attempt)
                THEN [t EXCEPT !.gets = t.gets + 1, !.status_code = status,
                               !.sleeps = Append(t.sleeps, Backoff(t.attempt)),
                               !.attempt = t.attempt + 1]
                ELSE [t EXCEPT !.gets = t.gets + 1, !.pc = "raised",
                               !.status_code = status]]
    /\ UNCHANGED <<now, cacheFile, lastSaved, callsLeft, ticksLeft>>

\* Lines 139-149: the GET fails; the exception leaves fetch_all_packages.
GetRaise(w, status) ==
    LET t == th[w] IN
    /\ t.pc = "request"
    /\ Outcome(t.attempt, status) = "raise"
    /\ th' = [th EXCEPT ![w] = [t EXCEPT !.gets = t.gets + 1, !.pc = "raised",
                                         !.status_code = status]]
    /\ UNCHANGED <<now, cacheFile, lastSaved, callsLeft, ticksLeft>>

\* Lines 276-277, 289: the page came (200) and parse_page raises on it.
PageRaise(w, html) ==
    LET t == th[w] IN
    /\ t.pc = "request"
    /\ Outcome(t.attempt, 200) = "return"
    /\ ParseRaises(html)
    /\ th' = [th EXCEPT ![w] = [t EXCEPT !.gets = t.gets + 1, !.pc = "raised",
                                         !.status_code = 200]]
    /\ UNCHANGED <<now, cacheFile, lastSaved, callsLeft, ticksLeft>>

\* Lines 276-293: the page came (200) and is parsed; progress is reported;
\* then either the delay and the next page's request, or on to save_cache.
PageOk(w, html) ==
    LET t == th[w]
        all == extend(t.all_packages, parse_page(html))
        total == TotalAfter(t, html)
        start == NextStart(t)
        u == [t EXCEPT !.gets = t.gets + 1, !.status_code = 200,
                       !.all_packages = all,
                       !.total = total, !.start = start,
                       !.caption0 = IF Len(t.offsets) = 1 THEN html.caption
                                    ELSE t.caption0,
                       !.progress = Append(t.progress, <<Len(all), total>>)]
    IN
    /\ t.pc = "request"
    /\ Outcome(t.attempt, 200) = "return"
    /\ ~ParseRaises(html)
    /\ th' = [th EXCEPT ![w] =
                IF MorePages(start, total)
                THEN NewRequest(Delay(u), start)
                ELSE [u EXCEPT !.pc = "save"]]
    /\ UNCHANGED <<now, cacheFile, lastSaved, callsLeft, ticksLeft>>

\* save_cache, lines 123-127: the document is read.
SaveRead(w) ==
    LET t == th[w] IN
    /\ t.pc = "save"
    /\ th' = [th EXCEPT ![w] =
                [t EXCEPT !.pc = "write", !.cache = ReadDoc(cacheFile)]]
    /\ UNCHANGED <<now, cacheFile, lastSaved, callsLeft, ticksLeft>>

\* Mutant of SaveWrite: a forced fetch returns without writing the document.
SaveWriteUnlessForced(w) ==
    LET t == th[w]
        key == _cache_key(t.distro, t.lang)
    IN
    /\ t.pc = "write"
    /\ cacheFile' = IF t.force THEN cacheFile
                    ELSE WriteDoc(save_cache(t.cache, t.distro, t.lang,
                                _packages_to_dicts(t.all_packages), now))
    /\ th' = [th EXCEPT ![w] =
                [t EXCEPT !.pc = "returned", !.result = t.all_packages]]
    /\ lastSaved' = [lastSaved EXCEPT ![key] = cacheFile'.entries[key]]
    /\ UNCHANGED <<now, callsLeft, ticksLeft>>

\* save_cache, lines 128-132, and the return of line 298.
SaveWrite(w) ==
    LET t == th[w] IN
    /\ t.pc = "write"
    /\ cacheFile' = WriteDoc(save_cache(t.cache, t.distro, t.lang,
                                _packages_to_dicts(t.all_packages), now))
    /\ th' = [th EXCEPT ![w] =
                [t EXCEPT !.pc = "returned", !.result = t.all_packages]]
    /\ lastSaved' = [lastSaved EXCEPT ![_cache_key(t.distro, t.lang)] =
                        StoredEntry(_packages_to_dicts(t.all_packages), now)]
    /\ UNCHANGED <<now, callsLeft, ticksLeft>>

\* The steps of the worker threads.
WorkerNext ==
    \/ \E w \in Workers, distro \in Distros, lang \in Langs, force \in BOOLEAN :
          Call(w, distro, lang, force) /\ UNCHANGED uiVars
    \/ \E w \in Workers : CacheHit(w) /\ UNCHANGED uiVars
    \/ \E w \in Workers : CacheMiss(w) /\ UNCHANGED uiVars
    \/ \E w \in Workers : GetRetry(w) /\ UNCHANGED uiVars
    \/ \E w \in Workers, status \in Statuses :
          GetRaise(w, status) /\ UNCHANGED uiVars
    \/ \E w \in Workers : \E html \in Pages(th[w].url) :
          PageRaise(w, html) /\ UNCHANGED uiVars
    \/ \E w \in Workers : \E html \in Pages(th[w].url) :
          PageOk(w, html) /\ UNCHANGED uiVars
    \/ \E w \in Workers : SaveRead(w) /\ UNCHANGED uiVars
    \/ \E w \in Workers : SaveWrite(w) /\ UNCHANGED uiVars

Next ==
    \/ \E d \in TickSteps : Tick(d) /\ UNCHANGED uiVars
    \/ WorkerNext

\* One worker at a time, the clock running.
Spec == Init /\ [][Next]_vars

\* Two workers at once, within one second.
SpecConc == InitConc /\ [][WorkerNext]_vars

TypeOK ==
    /\ now >= StartTime
    /\ cacheFile.kind \in {"missing", "garbage", "list", "null", "object"}
    /\ \A w \in Workers : th[w].pc \in
         {"off", "idle", "cache", "request", "save", "write", "returned", "raised"}

(***************************************************************************)
(* Strings, as Python compares and transforms them.                        *)
(***************************************************************************)
\* The characters of the model in code point order.
Alphabet ==
    <<" ", "-", "0", "1", "2", "5", "A", "B", "P", "a", "b", "c", "d", "h",
      "n", "o", "p", "r", "s", "t", "z">>

Ord(c) == CHOOSE i \in 1..Len(Alphabet) : Alphabet[i] = c

\* str.lower(), character by character.
LowerChar(c) ==
    CASE c = "A" -> "a" [] c = "B" -> "b" [] c = "P" -> "p" [] OTHER -> c

lower(str) == [i \in 1..Len(str) |-> LowerChar(str[i])]

IsSpace(c) == c = " "

\* str.strip(): leading and trailing whitespace removed.
RECURSIVE lstrip(_)
lstrip(str) ==
    IF str # <<>> /\ IsSpace(Head(str)) THEN lstrip(Tail(str)) ELSE str

RECURSIVE rstrip(_)
rstrip(str) ==
    IF str # <<>> /\ IsSpace(str[Len(str)])
    THEN rstrip(SubSeq(str, 1, Len(str) - 1))
    ELSE str

strip(str) == rstrip(lstrip(str))

\* sub in str
Contains(str, sub) ==
    \E i \in 0..(Len(str) - Len(sub)) : SubSeq(str, i + 1, i + Len(sub)) = sub

\* a < b, lexicographically by code point.
RECURSIVE StrLess(_, _)
StrLess(a, b) ==
    IF b = <<>> THEN FALSE
    ELSE IF a = <<>> THEN TRUE
    ELSE IF Head(a) # Head(b) THEN Ord(Head(a)) < Ord(Head(b))
    ELSE StrLess(Tail(a), Tail(b))

(***************************************************************************)
(* MainWindow._filter_and_display (app.py, lines 739-800).                 *)
(***************************************************************************)
SortKeys ==
    {"name_asc", "most_translated", "least_translated", "most_strings",
     "last_updated"}

\* p goes before q under the sort key: the key of p is smaller, or larger
\* when the sort is made with reverse=True.
Before(p, q, sort_key) ==
    CASE sort_key = "name_asc" -> StrLess(lower(p[1]), lower(q[1]))
      [] sort_key = "most_translated" -> p[2] > q[2]
      [] sort_key = "least_translated" -> p[2] < q[2]
      [] sort_key = "most_strings" -> p[6] > q[6]
      [] sort_key = "last_updated" -> StrLess(q[7], p[7])

\* Mutant of Insert: p is put in front of the records of equal key.
RECURSIVE InsertBeforeEquals(_, _, _)
InsertBeforeEquals(l, p, sort_key) ==
    IF l = <<>> THEN <<p>>
    ELSE IF ~Before(Head(l), p, sort_key) THEN <<p>> \o l
    ELSE <<Head(l)>> \o InsertBeforeEquals(Tail(l), p, sort_key)

\* p put into the sorted list l behind every record that does not have to
\* follow it.
RECURSIVE Insert(_, _, _)
Insert(l, p, sort_key) ==
    IF l = <<>> THEN <<p>>
    ELSE IF Before(p, Head(l), sort_key) THEN <<p>> \o l
    ELSE <<Head(l)>> \o Insert(Tail(l), p, sort_key)

\* list.sort(key=..., reverse=...): stable, records of equal key keep their
\* order.
RECURSIVE Sorted(_, _)
Sorted(l, sort_key) ==
    IF l = <<>> THEN <<>>
    ELSE Insert(Sorted(SubSeq(l, 1, Len(l) - 1), sort_key), l[Len(l)],
                sort_key)

\* query = self._search.get_text().lower().strip()
Query(search) == strip(lower(search))

\* Mutant of Matching: the name is not lower-cased.
MatchingCaseSensitive(packages, query) ==
    SelectSeq(packages, LAMBDA p : Contains(p[1], query))

\* [p for p in filtered if query in p.name.lower()]
Matching(packages, query) ==
    SelectSeq(packages, LAMBDA p : Contains(lower(p[1]), query))

\* overall_pct = (total_translated / total_strings * 100)
\*               if total_strings > 0 else 0
\* as the fraction <<numerator, denominator>>.
OverallPctUnguarded(total_translated, total_strings) ==
    <<total_translated * 100, total_strings>>

OverallPct(total_translated, total_strings) ==
    IF total_strings > 0 THEN <<total_translated * 100, total_strings>>
    ELSE <<0, 1>>

\* PackageStats.translated: total - untranslated, as it comes.
translated(p) == p[6] - p[3]

SumTotal(packages) == SumSeq([i \in DOMAIN packages |-> packages[i][6]])

SumTranslated(packages) ==
    SumSeq([i \in DOMAIN packages |-> translated(packages[i])])

SumUntranslated(packages) ==
    SumSeq([i \in DOMAIN packages |-> packages[i][3]])

\* sum(1 for p in packages if p.translated_pct >= 100)
Fully(packages) ==
    Cardinality({i \in DOMAIN packages : packages[i][2] >= 100})

\* The text of the summary label, lines 762-784, by its parts.
Summary(w) ==
    [kind |-> "summary",
     count |-> Len(w.packages),
     translated |-> SumTranslated(w.packages),
     total |-> SumTotal(w.packages),
     pct |-> OverallPct(SumTranslated(w.packages), SumTotal(w.packages)),
     untranslated |-> SumUntranslated(w.packages),
     fully |-> Fully(w.packages),
     cached |-> w._from_cache,
     age |-> IF w._from_cache THEN w._cache_age ELSE 0]

\* The window after _filter_and_display.  With an empty query `filtered` is
\* the list object self.packages itself, and filtered.sort() sorts that
\* object; with a query it is a new list.
_filter_and_display(w) ==
    LET query == Query(w.search)
        filtered == IF query # <<>> THEN Matching(w.packages, query)
                    ELSE w.packages
        sorted == Sorted(filtered, w.sort_key)
    IN
    [w EXCEPT !.filtered_packages = sorted,
              !.packages = IF query # <<>> THEN w.packages ELSE sorted,
              \* if self.packages: ... self._summary.set_text(summary)
              !.summary = IF w.packages # <<>> THEN Summary(w) ELSE w.summary]

(***************************************************************************)
(* The window and its worker threads (app.py, lines 673-737).  A callback  *)
(* handed to GLib.idle_add is [fn, w, packages, from_cache, age_minutes],  *)
(* w the worker that handed it in; the main loop runs them first in, first *)
(* out.  The callbacks that only set the loading label's text are left     *)
(* out.                                                                    *)
(***************************************************************************)
SeedRecords == <<ParseRow(RowApt)>>

\* The document an earlier run left two minutes ago: a complete entry for
\* one pair.
SeededFile ==
    WriteDoc([EmptyDoc EXCEPT ![_cache_key("noble", "sv")] =
                StoredEntry(_packages_to_dicts(SeedRecords),
                            StartTime - 120)])

LoadedCb(w, packages, from_cache, age_minutes) ==
    [fn |-> "_on_data_loaded", w |-> w, packages |-> packages,
     from_cache |-> from_cache, age_minutes |-> age_minutes]

ErrorCb(w) ==
    [fn |-> "_on_data_error", w |-> w, packages |-> <<>>,
     from_cache |-> FALSE, age_minutes |-> 0]

InitUI ==
    /\ UiInit
    /\ now = StartTime
    /\ cacheFile \in {MissingFile, SeededFile}
    /\ th = [w \in Workers |-> IdleThread]
    /\ lastSaved = EmptyDoc
    /\ callsLeft = MaxCalls
    /\ ticksLeft = 0

\* _load_data(force), on the main thread: a new thread is started for the
\* selected pair; nothing is done about a thread started before.
LoadData(w, distro, lang, force) ==
    /\ th[w].pc = "idle"
    /\ Call(w, distro, lang, force)
    /\ latest' = w
    /\ UNCHANGED <<win, idle, ran, input, ret>>

\* cache_cb(packages, age_minutes), called by fetch_all_packages on a hit.
CacheHitUI(w) ==
    /\ CacheHit(w)
    /\ idle' = Append(idle, LoadedCb(w, th'[w].result, TRUE,
                                     th'[w].cache_cb[1][2]))
    /\ UNCHANGED <<win, ran, latest, input, ret>>

\* worker(), after fetch_all_packages returned: line 702; the thread ends.
WorkerDone(w) ==
    /\ th[w].pc = "returned"
    /\ idle' = Append(idle, LoadedCb(w, th[w].result, FALSE, 0))
    /\ ran' = [ran EXCEPT ![w].outcome = "returned",
                          ![w].result = th[w].result,
                          ![w].cache_cb = th[w].cache_cb]
    /\ th' = [th EXCEPT ![w] = OffThread]
    /\ UNCHANGED <<now, cacheFile, lastSaved, callsLeft, ticksLeft,
                   win, latest, input, ret>>

\* worker(), the except clause: lines 703-704; the thread ends.
WorkerFailed(w) ==
    /\ th[w].pc = "raised"
    /\ idle' = Append(idle, ErrorCb(w))
    /\ ran' = [ran EXCEPT ![w].outcome = "raised"]
    /\ th' = [th EXCEPT ![w] = OffThread]
    /\ UNCHANGED <<now, cacheFile, lastSaved, callsLeft, ticksLeft,
                   win, latest, input, ret>>

\* _on_data_loaded(packages, from_cache, age_minutes)
_on_data_loaded(w, packages, from_cache, age_minutes) ==
    _filter_and_display([w EXCEPT !.packages = packages,
                                  !._from_cache = from_cache,
                                  !._cache_age = age_minutes])

\* Mutant of _on_data_error: the list is emptied when a fetch fails.
_on_data_error_clearing(w) ==
    [w EXCEPT !.packages = <<>>, !.filtered_packages = <<>>]

\* _on_data_error(error): the spinner stops, the label shows the error.
_on_data_error(w) == w

\* The main loop runs the callback that waited longest.
RunIdle ==
    LET cb == Head(idle) IN
    /\ idle # <<>>
    /\ idle' = Tail(idle)
    /\ win' = IF cb.fn = "_on_data_loaded"
              THEN _on_data_loaded(win, cb.packages, cb.from_cache,
                                   cb.age_minutes)
              ELSE _on_data_error(win)
    /\ ran' = IF cb.fn = "_on_data_loaded"
              THEN [ran EXCEPT ![cb.w].loaded = @ + 1]
              ELSE [ran EXCEPT ![cb.w].error = @ + 1]
    /\ UNCHANGED <<now, cacheFile, th, lastSaved, callsLeft, ticksLeft,
                   latest, input, ret>>

NextUI ==
    \/ \E w \in Workers, distro \in Distros, lang \in Langs, force \in BOOLEAN :
          LoadData(w, distro, lang, force)
    \/ \E w \in Workers : CacheHitUI(w)
    \/ \E w \in Workers : CacheMiss(w) /\ UNCHANGED uiVars
    \/ \E w \in Workers, status \in Statuses :
          GetRaise(w, status) /\ UNCHANGED uiVars
    \/ \E w \in Workers : \E html \in Pages(th[w].url) :
          PageRaise(w, html) /\ UNCHANGED uiVars
    \/ \E w \in Workers : \E html \in Pages(th[w].url) :
          PageOk(w, html) /\ UNCHANGED uiVars
    \/ \E w \in Workers : SaveRead(w) /\ UNCHANGED uiVars
    \/ \E w \in Workers : SaveWrite(w) /\ UNCHANGED uiVars
    \/ \E w \in Workers : WorkerDone(w)
    \/ \E w \in Workers : WorkerFailed(w)
    \/ RunIdle

\* The window, two worker threads and the main loop, within one second.  The
\* server answers every GET with a page or an error at once; the 429s and
\* the sleeps of _request_with_retry are in Spec.
SpecUI == InitUI /\ [][NextUI]_vars

(***************************************************************************)
(* load_cache, save_cache and load_config called alone on a file of any    *)
(* content.                                                                *)
(***************************************************************************)
CacheFiles ==
    { MissingFile, GarbageFile, ListFile, NullFile, WriteDoc(EmptyDoc),
      WriteDoc([EmptyDoc EXCEPT ![_cache_key("noble", "sv")] = PartialEntry]),
      SeededFile }

\* The config document: the set of keys of the JSON object, when it is one.
EmptyConfig == [kind |-> "object", entries |-> {}]

ConfigFiles ==
    { [kind |-> k, entries |-> {}] :
        k \in {"missing", "garbage", "list", "null", "object"} }
    \cup { [kind |-> "object", entries |-> {"welcome_shown"}] }

\* load_config: what json.loads returned, whatever its type; {} when the
\* read or the parse raised.
load_config(file) == IF ReadRaises(file) THEN EmptyConfig ELSE file

\* No worker runs; the two files hold anything.
NoFetch ==
    /\ now = StartTime
    /\ th = [w \in Workers |-> OffThread]
    /\ lastSaved = EmptyDoc
    /\ callsLeft = 0
    /\ ticksLeft = 0

InitFile ==
    /\ NoFetch
    /\ WindowInit
    /\ cacheFile \in CacheFiles
    /\ input \in ConfigFiles
    /\ ret = None

\* load_cache(distro, lang)
LoadCacheCall(distro, lang) ==
    /\ ret' = [kind |-> "load_cache", raised |-> FALSE, file0 |-> cacheFile,
               key |-> _cache_key(distro, lang),
               value |-> load_cache(cacheFile, distro, lang)]
    /\ UNCHANGED <<now, cacheFile, th, lastSaved, callsLeft, ticksLeft,
                   win, idle, ran, latest, input>>

\* save_cache(distro, lang, data): TypeError leaves it at line 128, before
\* anything is written.
SaveCacheCall(distro, lang, data) ==
    /\ ret' = [kind |-> "save_cache", raised |-> ItemAssignRaises(cacheFile),
               file0 |-> cacheFile, key |-> _cache_key(distro, lang),
               value |-> data]
    /\ cacheFile' = IF ItemAssignRaises(cacheFile) THEN cacheFile
                    ELSE WriteDoc(save_cache(ReadDoc(cacheFile), distro, lang,
                                            data, now))
    /\ UNCHANGED <<now, th, lastSaved, callsLeft, ticksLeft,
                   win, idle, ran, latest, input>>

\* load_config()
LoadConfigCall ==
    /\ ret' = [kind |-> "load_config", raised |-> FALSE, file0 |-> input,
               key |-> "", value |-> load_config(input)]
    /\ UNCHANGED <<now, cacheFile, th, lastSaved, callsLeft, ticksLeft,
                   win, idle, ran, latest, input>>

NextFile ==
    \/ \E distro \in Distros, lang \in Langs : LoadCacheCall(distro, lang)
    \/ \E distro \in Distros, lang \in Langs :
          \E data \in {<<>>, _packages_to_dicts(SeedRecords)} :
             SaveCacheCall(distro, lang, data)
    \/ LoadConfigCall

\* The three functions called in any order on any file content.
SpecFile == InitFile /\ [][NextFile]_vars

(***************************************************************************)
(* Every GET returns and every thread that can run does run.               *)
(***************************************************************************)
\* A later page may also come without table and caption.
LivePages(offset) ==
    IF offset = 0 THEN FirstPages
    ELSE LaterPages \cup {Html(Missing, FALSE, <<>>)}

\* A step of fetch_all_packages in worker w.
FetchStep(w) ==
    /\ \/ CacheHit(w)
       \/ CacheMiss(w)
       \/ GetRetry(w)
       \/ \E status \in Statuses : GetRaise(w, status)
       \/ \E html \in LivePages(th[w].url) : PageRaise(w, html)
       \/ \E html \in LivePages(th[w].url) : PageOk(w, html)
       \/ SaveRead(w)
       \/ SaveWrite(w)
    /\ UNCHANGED uiVars

NextLive ==
    \/ \E w \in Workers, distro \in Distros, lang \in Langs, force \in BOOLEAN :
          Call(w, distro, lang, force) /\ UNCHANGED uiVars
    \/ \E w \in Workers : FetchStep(w)

\* session.get has a timeout of 30 s and the sleeps end: a call that can
\* take a step takes one.
SpecLive ==
    Init /\ [][NextLive]_vars /\ \A w \in Workers : WF_vars(FetchStep(w))

(***************************************************************************)
(* The sleeps of a fetch, kept request by request.                         *)
(***************************************************************************)
\* What worker w has slept in _request_with_retry since its call began: one
\* list per request made, the last of them that of the request under way.
Slept(w) ==
    LET n == Len(th'[w].offsets) IN
    ran' = [ran EXCEPT ![w].slept =
               [i \in 1..n |-> IF i = n THEN th'[w].sleeps ELSE @[i]]]

RetryStep(w) ==
    /\ \/ \E distro \in Distros, lang \in Langs, force \in BOOLEAN :
             Call(w, distro, lang, force)
       \/ CacheHit(w)
       \/ CacheMiss(w)
       \/ GetRetry(w)
       \/ \E status \in Statuses : GetRaise(w, status)
       \/ \E html \in Pages(th[w].url) : PageRaise(w, html)
       \/ \E html \in Pages(th[w].url) : PageOk(w, html)
       \/ SaveRead(w)
       \/ SaveWrite(w)
    /\ Slept(w)
    /\ UNCHANGED <<win, idle, latest, input, ret>>

NextRetry == \E w \in Workers : RetryStep(w)

\* One worker at a time, within one second.
SpecRetry == Init /\ [][NextRetry]_vars

(***************************************************************************)
(* _cache_key called alone on a pair of the supported key space.           *)
(***************************************************************************)
\* The codes of DISTRO_VERSIONS.
DISTRO_VERSIONS ==
    {"resolute", "questing", "plucky", "oracular", "noble", "focal"}

\* The codes of LANGUAGES.
LANGUAGES ==
    {"sv", "da", "nb", "nn", "fi", "de", "fr", "es", "pt_BR", "it", "nl",
     "pl", "ru", "uk", "zh_CN", "zh_TW", "ja", "ko", "ar", "cs", "hu", "ro",
     "tr", "el", "he", "id", "ca", "gl", "eu", "pt"}

InitKey ==
    /\ NoFetch
    /\ WindowInit
    /\ cacheFile = MissingFile
    /\ \E distro \in DISTRO_VERSIONS, lang \in LANGUAGES :
          input = [kind |-> "pair", distro |-> distro, lang |-> lang]
    /\ ret = None

\* _cache_key(distro, lang)
CacheKeyCall ==
    /\ ret = None
    /\ ret' = [kind |-> "key", value |-> _cache_key(input.distro, input.lang)]
    /\ UNCHANGED <<now, cacheFile, th, lastSaved, callsLeft, ticksLeft,
                   win, idle, ran, latest, input>>

SpecKey == InitKey /\ [][CacheKeyCall]_vars

(***************************************************************************)
(* A cache file written by another version of the program.                 *)
(***************************************************************************)
\* asdict of a later PackageStats that has one more field.
DictWithExtraField(p) ==
    [f \in FieldNames \cup {"fuzzy_pct"} |->
        IF f = "fuzzy_pct" THEN 0 ELSE asdict(p)[f]]

\* asdict of an earlier PackageStats that had no last_editor.
DictLackingField(p) == [f \in FieldNames \ {"last_editor"} |-> asdict(p)[f]]

ForeignLists ==
    {<<asdict(ParseRow(RowApt))>>,
     <<DictWithExtraField(ParseRow(RowApt))>>,
     <<asdict(ParseRow(RowBash)), DictLackingField(ParseRow(RowApt))>>}

\* The file holds one entry, written at `timestamp`.
ForeignFile(dicts, timestamp) ==
    WriteDoc([EmptyDoc EXCEPT ![_cache_key("noble", "sv")] =
                 StoredEntry(dicts, timestamp)])

\* The entry is as old as can be and fresh, or one second older.
InitForward ==
    /\ UiInit
    /\ now = StartTime
    /\ \E dicts \in ForeignLists, age \in {CACHE_MAX_AGE - 1, CACHE_MAX_AGE} :
          cacheFile = ForeignFile(dicts, StartTime - age)
    /\ th = [w \in Workers |-> IF w = 1 THEN IdleThread ELSE OffThread]
    /\ lastSaved = EmptyDoc
    /\ callsLeft = MaxCalls
    /\ ticksLeft = MaxTicks

\* One worker at a time on such a file, within one second.
SpecForward == InitForward /\ [][WorkerNext]_vars

(***************************************************************************)
(* parse_page called alone on a page of one row, its cells of any content. *)
(***************************************************************************)
SortCells == {Missing, Bad, Num(0), Num(60)}

ParseRowsIn ==
    { [RowApt EXCEPT !.ncells = n, !.link = l, !.pct = pct,
                     !.untranslated = u, !.need_review = r, !.changed = c,
                     !.total = t] :
        n \in {7, 8}, l \in BOOLEAN, pct \in {Missing, Bad, Num(40)},
        u \in SortCells, r \in {Missing, Bad, Num(3)},
        c \in {Missing, Bad, Num(1)}, t \in {Bad, Num(0), Num(100)} }

InitParse ==
    /\ NoFetch
    /\ WindowInit
    /\ cacheFile = MissingFile
    /\ input \in {Html(Missing, TRUE, <<row>>) : row \in ParseRowsIn}
    /\ ret = None

\* parse_page(html, distro)
ParsePageCall ==
    /\ ret = None
    /\ ret' = [kind |-> "parse_page", raised |-> ParseRaises(input),
               value |-> IF ParseRaises(input) THEN <<>>
                         ELSE parse_page(input)]
    /\ UNCHANGED <<now, cacheFile, th, lastSaved, callsLeft, ticksLeft,
                   win, idle, ran, latest, input>>

SpecParse == InitParse /\ [][ParsePageCall]_vars

(***************************************************************************)
(* parse_page called alone on a page of up to four rows.                   *)
(***************************************************************************)
MaxRows == 4

\* Eight cells, none of them with a link; its percent is no number.
RowNoLink ==
    [RowApt EXCEPT !.link = FALSE, !.pct = Bad, !.name = <<"n", "o">>]

PageRows == {RowApt, RowBash, RowShort, RowNoLink, RowBadPct}

InitRows ==
    /\ NoFetch
    /\ WindowInit
    /\ cacheFile = MissingFile
    /\ \E n \in 0..MaxRows : \E rows \in [1..n -> PageRows] :
          input = Html(Missing, TRUE, rows)
    /\ ret = None

SpecRows == InitRows /\ [][ParsePageCall]_vars

(***************************************************************************)
(* The window alone: record lists arrive, the user types in the search     *)
(* entry and picks sort options.                                           *)
(***************************************************************************)
RowCron ==
    [RowApt EXCEPT !.name = <<"c", "r", "o", "n">>, !.href = "/cron/+translate",
                   !.pct = Num(0), !.untranslated = Num(0),
                   !.total = Num(50),
                   !.last_edited = <<"2", "0", "2", "5", "-", "0", "1", "-", "0", "5">>]

\* Half of its 100 strings translated.
RowTar ==
    [RowApt EXCEPT !.name = <<"t", "a", "r">>, !.href = "/tar/+translate",
                   !.pct = Num(50), !.untranslated = Num(50)]

\* A template without strings, listed at 100 percent.
RowDash ==
    [RowApt EXCEPT !.name = <<"d", "a", "s", "h">>, !.href = "/dash/+translate",
                   !.pct = Num(100), !.untranslated = Num(0),
                   !.total = Num(0), !.last_edited = <<>>]

ViewRecords ==
    {ParseRow(RowApt), ParseRow(RowBash), ParseRow(RowCron), ParseRow(RowTar),
     ParseRow(RowDash)}

\* The lists of at most three records, no record twice.
ViewLists ==
    {<<>>}
    \cup { <<a>> : a \in ViewRecords }
    \cup { l \in [1..2 -> ViewRecords] : l[1] # l[2] }
    \cup { l \in [1..3 -> ViewRecords] : Cardinality({l[i] : i \in 1..3}) = 3 }

\* What the search entry may hold.
Searches ==
    { <<>>, <<"a", "p">>, <<" ", "A", "P", " ">>, <<" ">>, <<"B", "a">>, <<"z">> }

InitView ==
    /\ NoFetch
    /\ UiInit
    /\ cacheFile = MissingFile

\* The main loop runs _on_data_loaded with the records of a fetch.
DataLoaded(packages) ==
    /\ win' = _on_data_loaded(win, packages, FALSE, 0)
    /\ ret' = None
    /\ UNCHANGED <<now, cacheFile, th, lastSaved, callsLeft, ticksLeft,
                   idle, ran, latest, input>>

\* _on_search_changed: the entry holds `text` now.
SearchChanged(text) ==
    /\ text # win.search
    /\ win' = _filter_and_display([win EXCEPT !.search = text])
    /\ ret' = None
    /\ UNCHANGED <<now, cacheFile, th, lastSaved, callsLeft, ticksLeft,
                   idle, ran, latest, input>>

\* _on_sort_changed: the drop-down has `sort_key` selected now.
SortChanged(sort_key) ==
    /\ sort_key # win.sort_key
    /\ win' = _filter_and_display([win EXCEPT !.sort_key = sort_key])
    /\ ret' = None
    /\ UNCHANGED <<now, cacheFile, th, lastSaved, callsLeft, ticksLeft,
                   idle, ran, latest, input>>

\* The length of the two lists of the statistics dialog: [:10].
TopN == 10

\* l[:n]
Take(l, n) == SubSeq(l, 1, IF Len(l) < n THEN Len(l) ELSE n)

\* The records with total > 0, in their order.
WithStrings(pkgs) == SelectSeq(pkgs, LAMBDA p : p[6] > 0)

\* What the statistics dialog shows for the list pkgs, lines 581-592.
Stats(pkgs) ==
    [kind |-> "stats",
     overall_pct |-> OverallPct(SumTranslated(pkgs), SumTotal(pkgs)),
     total_translated |-> SumTranslated(pkgs),
     total_strings |-> SumTotal(pkgs),
     count |-> Len(pkgs),
     fully_translated |-> Fully(pkgs),
     zero_pct |-> Cardinality({i \in DOMAIN pkgs : pkgs[i][2] = 0}),
     top_translated |-> Take(Sorted(pkgs, "most_translated"), TopN),
     least_translated |->
         Take(Sorted(WithStrings(pkgs), "least_translated"), TopN)]

\* _on_show_stats: nothing without packages, else the dialog is presented.
\* ret is what the handler that ran last put on the screen besides the
\* window: the dialog of ShowStats, nothing after the other handlers.
ShowStats ==
    /\ win.packages # <<>>
    /\ ret' = Stats(win.packages)
    /\ UNCHANGED <<now, cacheFile, th, lastSaved, callsLeft, ticksLeft,
                   win, idle, ran, latest, input>>

NextView ==
    \/ \E packages \in ViewLists : DataLoaded(packages)
    \/ \E text \in Searches : SearchChanged(text)
    \/ \E sort_key \in SortKeys : SortChanged(sort_key)
    \/ ShowStats

SpecView == InitView /\ [][NextView]_vars

(***************************************************************************)
(* The Clear cache button, pressed at any moment of a fetch.               *)
(***************************************************************************)
\* MainWindow._on_clear_cache: CACHE_FILE.unlink(missing_ok=True), on the
\* main thread, whatever the worker thread is doing.
ClearCache ==
    /\ cacheFile # MissingFile
    /\ cacheFile' = MissingFile
    /\ UNCHANGED <<now, th, lastSaved, callsLeft, ticksLeft, uiVars>>

NextClear ==
    \/ Next
    \/ ClearCache

\* One worker at a time, the clock running, the button pressed at will.
SpecClear == Init /\ [][NextClear]_vars

(***************************************************************************)
(* Claims.                                                                 *)
(***************************************************************************)
\* The entry of the file for the pair a thread was called with.
EntryOf(file, t) == file.entries[_cache_key(t.distro, t.lang)]

\* The thread's call went to the network and returned.
Fetched(t) == t.pc = "returned" /\ t.offsets # <<>>

\* The thread's call was served from the cache.
ServedFromCache(t) == t.pc = "returned" /\ t.offsets = <<>>

\* A step of thread w out of the cache check of a call with force=False.
CacheDecision(w) ==
    th[w].pc = "cache" /\ ~th[w].force /\ th'[w] # th[w]

\* C1: with force=False, whenever the document holds an entry for the pair
\* whose age is below 3600 s, whatever its record list (the empty list
\* included), the call returns exactly the cached records, calls cache_cb
\* once with (records, floor(age / 60)) and issues no HTTP request.
C1_FreshEntryIsServed ==
    [][\A w \in Workers :
        LET e == EntryOf(cacheFile, th[w])
            age == now - e.timestamp
        IN
        (CacheDecision(w) /\ cacheFile.kind = "object" /\ e.present
            /\ age < 3600)
        => /\ th'[w].pc = "returned"
           /\ _packages_to_dicts(th'[w].result) = e.data
           /\ th'[w].cache_cb = <<<<th'[w].result, age \div 60>>>>
           /\ th'[w].offsets = <<>>]_vars

\* C2: with force=False and a non-empty entry for the pair, the entry is
\* reused if and only if its age is strictly below 3600 s; from 3600 s on the
\* first page is requested from the network.
C2_ReusedIffUnderOneHour ==
    [][\A w \in Workers :
        LET e == EntryOf(cacheFile, th[w])
            age == now - e.timestamp
        IN
        (CacheDecision(w) /\ cacheFile.kind = "object" /\ e.present
            /\ e.data # <<>>)
        => IF age < 3600
           THEN ServedFromCache(th'[w])
                /\ _packages_to_dicts(th'[w].result) = e.data
           ELSE th'[w].pc = "request" /\ th'[w].offsets = <<0>>
                /\ th'[w].cache_cb = <<>>]_vars

\* C2 witness: a non-forced call found its non-empty entry exactly 3600 s old
\* and is requesting the first page.
C2_Witness ==
    \E w \in Workers :
        LET t == th[w] IN
        /\ t.pc = "request" /\ ~t.force /\ t.offsets = <<0>>
        /\ cacheFile.kind = "object"
        /\ EntryOf(cacheFile, t).present
        /\ EntryOf(cacheFile, t).data # <<>>
        /\ now - EntryOf(cacheFile, t).timestamp = 3600

\* C3: a fetch that went to the network and got all its pages, forced or not,
\* returns with the pair's entry equal to the returned records, stamped with
\* the time of the save; the entry is there when the call has returned.
C3_FetchSavesResult ==
    [][\A w \in Workers :
        (th[w].pc # "returned" /\ Fetched(th'[w]))
        => /\ cacheFile'.kind = "object"
           /\ EntryOf(cacheFile', th'[w]) =
                StoredEntry(_packages_to_dicts(th'[w].result), now')
           /\ th'[w].result = th[w].all_packages]_vars

\* C3 witness: a forced fetch of several pages has returned, over an older
\* entry of the pair, and the entry holds its records.
C3_Witness ==
    \E w \in Workers :
        LET t == th[w] IN
        /\ Fetched(t) /\ t.force /\ Len(t.offsets) = 3
        /\ t.file0.kind = "object" /\ EntryOf(t.file0, t).present
        /\ EntryOf(cacheFile, t).data = _packages_to_dicts(t.result)
        /\ EntryOf(cacheFile, t).timestamp = now
        /\ EntryOf(cacheFile, t) # EntryOf(t.file0, t)

\* C4: when a request of a fetch fails, on the first page or a later one, the
\* call raises, returns no records, and the document is what it was when the
\* call began.
C4_FailedFetchLeavesCache ==
    \A w \in Workers :
        th[w].pc = "raised"
        => /\ cacheFile = th[w].file0
           /\ th[w].result = <<>>
           /\ th[w].cache_cb = <<>>

\* C4 witness: a fetch failed on a later page while the document held an
\* entry for its pair.
C4_Witness ==
    \E w \in Workers :
        LET t == th[w] IN
        /\ t.pc = "raised" /\ Len(t.offsets) >= 2 /\ t.all_packages # <<>>
        /\ t.file0.kind = "object" /\ EntryOf(t.file0, t).present
        /\ cacheFile = t.file0

\* C5: with force=True the call never uses the cache and never calls
\* cache_cb: it requests page 0 from the network, also when a fresh entry for
\* the pair exists.
C5_ForceSkipsCache ==
    [][\A w \in Workers :
        (th[w].pc = "cache" /\ th[w].force /\ th'[w] # th[w])
        => /\ th'[w].pc = "request"
           /\ th'[w].offsets = <<0>>
           /\ th'[w].cache_cb = <<>>]_vars

\* C5 witness: a forced call requests page 0 while the document holds a fresh,
\* non-empty entry for its pair.
C5_Witness ==
    \E w \in Workers :
        LET t == th[w] IN
        /\ t.pc = "request" /\ t.force /\ t.offsets = <<0>>
        /\ cacheFile.kind = "object"
        /\ EntryOf(cacheFile, t).present
        /\ EntryOf(cacheFile, t).data # <<>>
        /\ now - EntryOf(cacheFile, t).timestamp < 3600

\* C6: two workers that save results for different pairs at the same time
\* never destroy each other's data: once both have returned, the document
\* holds both entries.
C6_ConcurrentSavesKeepBoth ==
    \A w1, w2 \in Workers :
        (/\ w1 # w2
         /\ Fetched(th[w1]) /\ Fetched(th[w2])
         /\ _cache_key(th[w1].distro, th[w1].lang)
              # _cache_key(th[w2].distro, th[w2].lang))
        => /\ cacheFile.kind = "object"
           /\ EntryOf(cacheFile, th[w1]).present
           /\ EntryOf(cacheFile, th[w2]).present

\* C7: saves made one after another change only their own key: the document
\* holds, for every pair, exactly the entry of that pair's last save, and no
\* entry for a pair never saved.
C7_SavesKeepOtherEntries ==
    /\ cacheFile.kind = "object" => cacheFile.entries = lastSaved
    /\ cacheFile.kind # "object" => lastSaved = EmptyDoc

\* C7 witness: a fetch has saved its pair while the document held another
\* pair's entry, which is still there unchanged.
C7_Witness ==
    \E w \in Workers : \E k \in KeySpace :
        LET t == th[w] IN
        /\ Fetched(t) /\ k # _cache_key(t.distro, t.lang)
        /\ t.file0.kind = "object" /\ t.file0.entries[k].present
        /\ t.file0.entries[k].data # <<>>
        /\ cacheFile.entries[k] = t.file0.entries[k]
        /\ EntryOf(cacheFile, t).present
        /\ EntryOf(cacheFile, t).timestamp # cacheFile.entries[k].timestamp

ReportedTotal(t) == IF t.caption0.kind = "num" THEN t.caption0.val ELSE 0

\* The call has got all its pages.
PagesDone(t) == t.pc \in {"save", "write"} \/ Fetched(t)

\* C9: with page size 300 and total T from the first page, a fetch requests
\* the offsets 0, 300, 600, ... below T in increasing order, one page only
\* (offset 0) when T is 0 or unparseable; progress is called once per page
\* fetched with second argument T and a first argument that never decreases.
C9_Pagination ==
    \A w \in Workers :
        LET t == th[w]
            T == ReportedTotal(t)
            fetched == IF PagesDone(t) THEN Len(t.offsets)
                       ELSE Len(t.offsets) - 1
        IN
        t.offsets # <<>>
        => /\ \A i \in 1..Len(t.offsets) : t.offsets[i] = 300 * (i - 1)
           /\ \A i \in 2..Len(t.offsets) : t.offsets[i] < T
           /\ Len(t.progress) = fetched
           /\ \A i \in 1..Len(t.progress) : t.progress[i][2] = T
           /\ \A i, j \in 1..Len(t.progress) :
                  i <= j => t.progress[i][1] <= t.progress[j][1]
           /\ PagesDone(t) =>
                 /\ Len(t.offsets) = IF T = 0 THEN 1 ELSE (T + 299) \div 300
                 /\ T = 650 => t.offsets = <<0, 300, 600>>

\* C9 witness: a fetch whose first page reported 650 has returned after the
\* offsets 0, 300, 600 and three progress calls.
C9_Witness ==
    \E w \in Workers :
        LET t == th[w] IN
        /\ Fetched(t) /\ ReportedTotal(t) = 650
        /\ t.offsets = <<0, 300, 600>>
        /\ Len(t.progress) = 3
        /\ t.progress[1][1] < t.progress[3][1]

\* C10: in one _request_with_retry call the 429 of attempt a (0..3) is
\* followed by a sleep of 2^(a+1) s (2, 4, 8, 16) and a new GET of the same
\* URL; two 429s and then a 200 make two sleeps, 2 s then 4 s, and three GETs.
C10_BackoffSchedule ==
    \A w \in Workers :
        LET t == th[w]
            schedule == <<2, 4, 8, 16>>
        IN
        /\ Len(t.sleeps) <= 4
        /\ \A i \in 1..Len(t.sleeps) : t.sleeps[i] = schedule[i]
        /\ t.pc = "request"
            => /\ t.gets = Len(t.sleeps)
               /\ t.attempt = t.gets
               /\ t.url = t.offsets[Len(t.offsets)]
        /\ (PagesDone(t) \/ t.pc = "raised") => t.gets = Len(t.sleeps) + 1

\* C10 witness: the last request of a fetch got 429 twice and then 200.
C10_Witness ==
    \E w \in Workers :
        LET t == th[w] IN
        t.pc = "save" /\ t.sleeps = <<2, 4>> /\ t.gets = 3

\* A step of thread w that makes a GET of its current request.
MakesGet(w) == th[w].pc = "request" /\ th'[w] # th[w]

\* C11: one _request_with_retry call makes at most 5 GETs and at most 4
\* sleeps, 30 s in all; after four 429s the fifth GET is final: the call
\* returns its response or raises on it (a 429 there raises), and neither a
\* sleep nor a GET of that call follows.
C11_RetryBudget ==
    [][\A w \in Workers :
        LET t == th[w]
            u == th'[w]
            retried == u.pc = "request" /\ u.gets > 0
            slept == IF retried THEN u.sleeps ELSE t.sleeps
        IN
        MakesGet(w)
        => /\ t.gets + 1 <= 5
           /\ Len(slept) <= 4
           /\ SumSeq(slept) <= 30
           /\ t.gets = 4
               => /\ t.sleeps = <<2, 4, 8, 16>>
                  /\ ~retried
                  /\ u.pc = "raised" => u.gets = 5 /\ u.sleeps = t.sleeps
                  /\ u.status_code = 429 => u.pc = "raised"
                  /\ u.pc # "raised"
                      => /\ u.pc \in {"request", "save"}
                         /\ Len(u.progress) = Len(t.progress) + 1]_vars

\* C11 witness: a request was answered 429 five times; the call raised after
\* 5 GETs and the sleeps 2, 4, 8, 16.
C11_Witness ==
    \E w \in Workers :
        LET t == th[w] IN
        /\ t.pc = "raised" /\ t.status_code = 429
        /\ t.gets = 5 /\ t.sleeps = <<2, 4, 8, 16>>
        /\ SumSeq(t.sleeps) = 30

\* C12: an error answer other than 429 (or session.get raising), on any
\* attempt, makes the call raise at once: no sleep, no further GET of the
\* request, no further page; the fetch that made the request raises with it
\* and stays failed until the worker is started anew.
C12_ErrorFailsAtOnce ==
    [][\A w \in Workers :
        LET t == th[w]
            u == th'[w]
        IN
        /\ (MakesGet(w) /\ IsError(u.status_code) /\ u.status_code # 429)
            => /\ u.pc = "raised"
               /\ u.gets = t.gets + 1
               /\ u.sleeps = t.sleeps
               /\ u.offsets = t.offsets
               /\ u.result = <<>>
        /\ (t.pc = "raised" /\ u # t)
            => u.pc = "cache" /\ u.gets = 0 /\ u.offsets = <<>>]_vars

\* C12 witness: the second page's request got a 429 and then a 500; the
\* fetch raised after that second GET and the one sleep.
C12_Witness ==
    \E w \in Workers :
        LET t == th[w] IN
        /\ t.pc = "raised" /\ t.status_code = 500
        /\ t.offsets = <<0, 300>> /\ t.gets = 2 /\ t.sleeps = <<2>>

\* The file holds no usable document for the key: it is missing, is not JSON,
\* is JSON but no object, or its entry for the key is not complete.
Corrupt(file, key) ==
    file.kind # "object"
    \/ (file.entries[key].present /\ ~file.entries[key].complete)

\* C13: whatever the cache file holds (nothing, no JSON, JSON that is no
\* object, an object whose entry lacks data or timestamp), load_cache returns
\* absent and does not raise, and save_cache does not raise and writes a
\* document that holds the new entry, the only entry when the file held no
\* object; load_config returns an empty config for such a file.
C13_CorruptFileIsEmptyDocument ==
    /\ (ret.kind = "load_cache" /\ Corrupt(ret.file0, ret.key))
        => ~ret.raised /\ ~ret.value.found
    /\ (ret.kind = "save_cache" /\ Corrupt(ret.file0, ret.key))
        => /\ ~ret.raised
           /\ cacheFile.kind = "object"
           /\ cacheFile.entries[ret.key] = StoredEntry(ret.value, now)
           /\ ret.file0.kind # "object"
               => cacheFile.entries =
                    [EmptyDoc EXCEPT ![ret.key] = StoredEntry(ret.value, now)]
    /\ (ret.kind = "load_config" /\ ret.file0.kind # "object")
        => ~ret.raised /\ ret.value = EmptyConfig

\* C14: from the clear on and until the next save the cache is empty: for
\* every pair load_cache returns absent and a fetch with force=False
\* requests page 0; the first save after the clear leaves a document that
\* holds that save's entry and no other.
C14_ClearedCacheIsEmpty ==
    [][\A w \in Workers :
        LET t == th[w]
            key == _cache_key(t.distro, t.lang)
        IN
        cacheFile = MissingFile
        => /\ \A distro \in Distros, lang \in Langs :
                  ~load_cache(cacheFile, distro, lang).found
           /\ CacheDecision(w)
               => th'[w].pc = "request" /\ th'[w].offsets = <<0>>
           /\ (t.pc = "write" /\ th'[w].pc = "returned")
               => cacheFile'.entries =
                    [EmptyDoc EXCEPT ![key] =
                        StoredEntry(_packages_to_dicts(t.all_packages), now')]
      ]_vars

\* The two lists hold the same records, each as many times.
SameRecords(a, b) ==
    /\ Len(a) = Len(b)
    /\ \A i \in DOMAIN a :
          Cardinality({j \in DOMAIN a : a[j] = a[i]})
            = Cardinality({j \in DOMAIN b : b[j] = a[i]})

\* Every thread started has ended and every callback has run.
Quiet ==
    idle = <<>> /\ \A w \in Workers : th[w].pc \in {"idle", "off"}

\* C15: a fetch that a newer one has superseded cannot overwrite the newer
\* one's data: when every callback has run, the window's packages are the
\* records that the fetch started last returned.
C15_LatestFetchWins ==
    (Quiet /\ latest # 0 /\ ran[latest].outcome = "returned")
    => SameRecords(win.packages, ran[latest].result)

\* The callbacks of worker w that wait in the queue.
Pending(q, w) == {i \in DOMAIN q : q[i].w = w}

\* C16: when a fetch fails, _on_data_error runs once for it and
\* _on_data_loaded not at all; the step that runs _on_data_error leaves
\* packages, filtered_packages, _from_cache and _cache_age as they were and
\* starts no fetch.
C16_FailedFetchKeepsData ==
    [][/\ (idle # <<>> /\ Head(idle).fn = "_on_data_error"
           /\ idle' = Tail(idle))
          => /\ win' = win
             /\ th' = th /\ callsLeft' = callsLeft /\ latest' = latest
             /\ ran'[Head(idle).w].error = 1
       /\ \A w \in Workers :
            ran'[w].outcome = "raised"
            => /\ ran'[w].loaded = 0
               /\ ran'[w].error + Cardinality(Pending(idle', w)) = 1
               /\ \A i \in Pending(idle', w) : idle'[i].fn = "_on_data_error"
      ]_vars

\* C16 witness: a fetch failed after another one's records had been loaded;
\* its _on_data_error has run and the window still shows those records.
C16_Witness ==
    \E w, v \in Workers :
        /\ ran[w].outcome = "raised" /\ ran[w].error = 1
        /\ latest = w
        /\ ran[v].outcome = "returned" /\ ran[v].loaded = 1
        /\ idle = <<>>
        /\ win.packages # <<>> /\ win.filtered_packages = win.packages
        /\ SameRecords(win.packages, ran[v].result)

\* C17: every record that parse_page makes has 0 <= translated <= total,
\* translated being total - untranslated, whatever the untranslated cell and
\* the total cell of the row hold (a total that is no number, taken as 0,
\* included).
C17_TranslatedWithinTotal ==
    (ret.kind = "parse_page" /\ ~ret.raised)
    => \A i \in DOMAIN ret.value :
          0 <= translated(ret.value[i])
          /\ translated(ret.value[i]) <= ret.value[i][6]

\* The number a cell stands for under the claim: its value, 0 when the value
\* is missing or is no number.
OrZero(cell) == IF cell.kind = "num" THEN cell.val ELSE 0

\* C18: for a row of at least 8 cells with a linked name, whatever mix of
\* missing, unparseable and valid numeric cells it has, parse_page does not
\* raise and makes the row's record, each numeric field being the cell's
\* number, or 0 when that is missing or unparseable.
C18_BadCellsDefaultToZero ==
    LET row == input.rows[1] IN
    (ret.kind = "parse_page" /\ row.ncells >= 8 /\ row.link)
    => /\ ~ret.raised
       /\ Len(ret.value) = 1
       /\ ret.value[1][2] = OrZero(row.pct)
       /\ ret.value[1][3] = OrZero(row.untranslated)
       /\ ret.value[1][4] = OrZero(row.need_review)
       /\ ret.value[1][5] = OrZero(row.changed)
       /\ ret.value[1][6] = OrZero(row.total)

\* A step that runs _filter_and_display for a new search text or sort key.
ViewChange == win'.search # win.search \/ win'.sort_key # win.sort_key

\* C19: _filter_and_display changes nothing of self.packages, neither the
\* records nor their order, whatever the search text and the sort key.
C19_FilterLeavesPackages ==
    [][ViewChange => win'.packages = win.packages]_vars

\* The records of a list.
Records(l) == {l[i] : i \in DOMAIN l}

\* C20: the records displayed are exactly those of self.packages whose
\* lower-cased name contains the lower-cased search text; with an empty
\* text, all of them; with the text "ap" over apt, bash and cron, apt alone.
C20_FilterBySubstring ==
    /\ Len(win.filtered_packages) = Cardinality(Records(win.filtered_packages))
    /\ Records(win.filtered_packages) =
          {p \in Records(win.packages) :
              Contains(lower(p[1]), lower(win.search))}

\* C20, amended: the search text is lower-cased and stripped of the white
\* space around it before it is looked for; a text that is empty after that
\* displays every record.
C20_FilterByStrippedSubstring ==
    /\ Len(win.filtered_packages) = Cardinality(Records(win.filtered_packages))
    /\ Records(win.filtered_packages) =
          {p \in Records(win.packages) :
              Contains(lower(p[1]), strip(lower(win.search)))}
    /\ strip(win.search) = <<>>
        => Records(win.filtered_packages) = Records(win.packages)

\* C20 witness: of apt, Bash and cron the text " AP " displays apt alone.
C20_Witness ==
    /\ Len(win.packages) = 3
    /\ win.search = <<" ", "A", "P", " ">>
    /\ win.filtered_packages = <<ParseRow(RowApt)>>

\* The key of p comes strictly before the key of q in the order that the sort
\* key names.
KeyPrecedes(p, q, sort_key) ==
    CASE sort_key = "name_asc" -> StrLess(lower(p[1]), lower(q[1]))
      [] sort_key = "most_translated" -> q[2] < p[2]
      [] sort_key = "least_translated" -> p[2] < q[2]
      [] sort_key = "most_strings" -> q[6] < p[6]
      [] sort_key = "last_updated" -> StrLess(q[7], p[7])

\* Where record p stands in list l.
IndexOf(l, p) == CHOOSE i \in DOMAIN l : l[i] = p

\* C21: under every sort key the displayed list is a permutation of the
\* filtered records in the order of the key (name ascending without regard
\* to case, percent descending, percent ascending, total descending,
\* last-edited text descending), and records of equal key stand as they
\* stood in the list that was sorted; [apt 40, bash 90, cron 0] by least
\* translated gives [cron, apt, bash].
C21_SortedByKey ==
    [][LET f == win'.filtered_packages
           key == win'.sort_key
           query == strip(lower(win'.search))
       IN
       /\ Len(f) = Cardinality(Records(f))
       /\ Records(f) = {p \in Records(win'.packages) :
                          Contains(lower(p[1]), query)}
       /\ \A i, j \in DOMAIN f : i < j => ~KeyPrecedes(f[j], f[i], key)
       /\ ViewChange
           => \A i, j \in DOMAIN f :
                 (i < j /\ ~KeyPrecedes(f[i], f[j], key))
                 => IndexOf(win.packages, f[i]) < IndexOf(win.packages, f[j])
      ]_vars

\* C21 witness: apt (40), Bash (90) and cron (0) under least translated are
\* displayed as cron, apt, Bash.
C21_Witness ==
    /\ win.sort_key = "least_translated"
    /\ win.search = <<>>
    /\ win.filtered_packages =
          <<ParseRow(RowCron), ParseRow(RowApt), ParseRow(RowBash)>>

\* The fraction pct is the roll-up of the list: 100 * sum(total -
\* untranslated) / sum(total) when the totals sum to more than 0, else 0,
\* and its denominator is never 0.
IsRollUp(pct, packages) ==
    LET ts == SumSeq([i \in DOMAIN packages |-> packages[i][6]])
        tt == SumSeq([i \in DOMAIN packages |->
                         packages[i][6] - packages[i][3]])
    IN /\ pct[2] # 0
       /\ IF ts > 0 THEN pct[1] * ts = 100 * tt * pct[2] ELSE pct[1] = 0

\* C22: whenever the window has records the percent of the summary bar is
\* 100 * sum(total - untranslated) / sum(total) of them, 0 when the totals
\* sum to 0, never a division by zero; the statistics dialog shows the same
\* roll-up of the same list, equal to the one of the summary bar.
C22_RollUpPercent ==
    [][/\ win'.packages # <<>>
           => /\ win'.summary.kind = "summary"
              /\ IsRollUp(win'.summary.pct, win'.packages)
       /\ ret'.kind = "stats"
           => /\ win.packages # <<>>
              /\ IsRollUp(ret'.overall_pct, win.packages)
              /\ ret'.overall_pct = win.summary.pct
      ]_vars

\* C22 witness: tar (50 of 100 translated) and cron (50 of 50) roll up to
\* 100 * 100 / 150 in the summary bar and in the dialog.
C22_Witness ==
    /\ Records(win.packages) = {ParseRow(RowTar), ParseRow(RowCron)}
    /\ Len(win.packages) = 2
    /\ win.summary.kind = "summary"
    /\ win.summary.pct = <<10000, 150>>
    /\ ret.kind = "stats"
    /\ ret.overall_pct = <<10000, 150>>

\* C23: both lists of the statistics dialog are taken from the packages
\* with total > 0 only: no package with total = 0 stands in the most
\* translated list or in the least translated list, and with at most N
\* such packages each list holds exactly them.
C23_ListsFromPackagesWithStrings ==
    ret.kind = "stats"
    => /\ \A i \in DOMAIN ret.top_translated : ret.top_translated[i][6] > 0
       /\ \A i \in DOMAIN ret.least_translated :
             ret.least_translated[i][6] > 0
       /\ Len(WithStrings(win.packages)) <= TopN
           => /\ Records(ret.top_translated) =
                    Records(WithStrings(win.packages))
              /\ Records(ret.least_translated) =
                    Records(WithStrings(win.packages))

\* C24: a call without force that finds a fresh entry (younger than 3600 s)
\* does not raise, whatever fields the record objects of the entry carry:
\* it returns the records of the entry or goes on to fetch.
C24_ForeignEntryDoesNotRaise ==
    [][\A w \in Workers :
          (/\ th[w].pc = "cache"
           /\ ~th[w].force
           /\ LET c == load_cache(cacheFile, th[w].distro, th[w].lang) IN
              c.found /\ c.data # <<>> /\ now - c.timestamp < 3600)
          => th'[w].pc # "raised"
      ]_vars

\* C25: when a load without force was served from the cache and every
\* callback it queued has run, _on_data_loaded has run once for it, and the
\* window (no load having been started after it) records from_cache = True
\* and the age in minutes that the cache hit reported.
C25_CacheHitKeepsProvenance ==
    \A w \in Workers :
        (/\ Quiet
         /\ ran[w].outcome = "returned"
         /\ ran[w].cache_cb # <<>>)
        => /\ ran[w].loaded = 1
           /\ latest = w
               => /\ win._from_cache
                  /\ win._cache_age = ran[w].cache_cb[1][2]

\* C26: within one fetch the pages are requested one after another: the
\* requests issued are at most one ahead of the pages parsed and reported
\* to the progress callback, and exactly one while a request is
\* outstanding; no REQUEST_DELAY sleep precedes the first page and one
\* precedes each later page, pages - 1 in all.
C26_SequentialPages ==
    \A w \in Workers :
        LET t == th[w] IN
        /\ t.offsets = <<>> => t.delays = 0 /\ t.progress = <<>>
        /\ t.offsets # <<>>
            => /\ t.delays = Len(t.offsets) - 1
               /\ Len(t.offsets) - Len(t.progress) \in {0, 1}
               /\ t.pc = "request" => Len(t.progress) = Len(t.offsets) - 1
               /\ t.pc \in {"save", "write", "returned"}
                   => Len(t.progress) = Len(t.offsets)
               /\ \A i \in DOMAIN t.progress :
                     t.progress[i][1] <= Len(t.all_packages)

\* C26 witness: the request for the third page is outstanding after two
\* pages were parsed and reported and two delays were slept.
C26_Witness ==
    \E w \in Workers :
        LET t == th[w] IN
        /\ t.pc = "request" /\ t.offsets = <<0, 300, 600>>
        /\ Len(t.progress) = 2 /\ t.delays = 2

\* The call of the thread is under way.
Running(t) == t.pc \in {"cache", "request", "save", "write"}

\* C27: provided every GET returns, every call of fetch_all_packages
\* returns or raises in the end; with total T of the first page it requests
\* at most max(1, ceil(T / 300)) pages and makes at most 5 GETs for each,
\* whatever rows and totals the later pages bring.
C27_Terminates ==
    /\ [](\A w \in Workers :
            LET t == th[w]
                T == ReportedTotal(t)
            IN /\ Len(t.offsets) <= IF T = 0 THEN 1 ELSE (T + 299) \div 300
               /\ t.gets <= 5
               /\ t.pc = "request" => t.gets <= 4)
    /\ \A w \in Workers :
          Running(th[w]) ~> th[w].pc \in {"returned", "raised"}

\* C27 witness: a call has returned after three pages, the last of them
\* without rows and got at the fifth GET.
C27_Witness ==
    \E w \in Workers :
        LET t == th[w] IN
        /\ t.pc = "returned" /\ t.offsets = <<0, 300, 600>>
        /\ t.progress[3][1] = t.progress[2][1]
        /\ t.gets = 5 /\ t.sleeps = <<2, 4, 8, 16>>

\* The rows of the page that make a record.
RecordRows(html) ==
    IF html.table THEN {i \in DOMAIN html.rows : ~Skipped(html.rows[i])}
    ELSE {}

\* C28: the result of a fetch from the network is the concatenation of the
\* record lists of its pages in the order they were fetched: each page that
\* is parsed appends its records, as many as it has rows that make one, to
\* the end of the list, also those the list holds already; no other step
\* of the call changes the list, and the call returns it.
C28_ResultIsConcatenation ==
    [][\A w \in Workers :
          LET t == th[w]
              u == th'[w]
          IN
          /\ t.pc = "cache" => t.all_packages = <<>>
          /\ (t.pc = "request" /\ Len(u.progress) = Len(t.progress) + 1)
              => \E html \in LivePages(t.url) :
                    /\ u.all_packages = t.all_packages \o parse_page(html)
                    /\ Len(u.all_packages) =
                          Len(t.all_packages) + Cardinality(RecordRows(html))
          /\ (Running(t) /\ Len(u.progress) = Len(t.progress)
                 /\ u.pc # "returned")
              => u.all_packages = t.all_packages
          /\ (t.pc = "write" /\ u.pc = "returned")
              => u.result = t.all_packages
      ]_vars

\* C28 witness: apt stood on the first page and again on the two later
\* ones, after Bash; the call returned apt, Bash, apt, Bash, apt.
C28_Witness ==
    \E w \in Workers :
        /\ Fetched(th[w])
        /\ th[w].result =
              <<ParseRow(RowApt), ParseRow(RowBash), ParseRow(RowApt),
                ParseRow(RowBash), ParseRow(RowApt)>>

\* C29: reading never evicts: the hit-or-miss decision of a call leaves the
\* cache document as it is, and so does every step of a call but the write
\* that ends a successful fetch, which changes no entry of a JSON object but
\* the one of its pair; a stale entry thus stays, data and timestamp, until
\* then, and is there after a fetch for its pair failed.
C29_ReadingNeverEvicts ==
    [][/\ \A w \in Workers :
            (th[w].pc = "cache" \/ th'[w].pc = "raised")
            => cacheFile' = cacheFile
       /\ cacheFile' # cacheFile
           => \E w \in Workers :
                 /\ th[w].pc = "write" /\ th'[w].pc = "returned"
                 /\ cacheFile.kind = "object"
                     => \A k \in KeySpace \ {_cache_key(th[w].distro,
                                                         th[w].lang)} :
                           cacheFile'.entries[k] = cacheFile.entries[k]
      ]_vars

\* C29 witness: a call without force found the entry of its pair stale,
\* went to fetch and failed; the entry is in the document as it was.
C29_Witness ==
    \E w \in Workers :
        LET t == th[w]
            e == EntryOf(cacheFile, t)
        IN
        /\ t.pc = "raised" /\ ~t.force /\ t.offsets # <<>>
        /\ cacheFile.kind = "object" /\ cacheFile = t.file0
        /\ e.present /\ e.data # <<>> /\ now - e.timestamp >= 3600

\* C30: a table row with fewer than 8 cells, or with no link in its first
\* cell, makes no record and raises nothing, whatever its other cells
\* hold: parse_page does with the page what it does with the page without
\* such rows, and the rows that are left make their records in the order
\* of the rows.
C30_SkippedRowsLeaveTheOthers ==
    ret.kind = "parse_page"
    => LET kept == SelectSeq(input.rows,
                             LAMBDA r : r.ncells >= 8 /\ r.link)
       IN /\ ret.raised <=> \E i \in DOMAIN kept : kept[i].pct.kind = "bad"
          /\ ~ret.raised
              => /\ Len(ret.value) = Len(kept)
                 /\ \A i \in DOMAIN kept :
                       /\ ret.value[i][1] = kept[i].name
                       /\ ret.value[i][6] = cell_int(kept[i].total)

\* C30 witness: of the rows apt, a short one, one without link and Bash,
\* parse_page returned the records of apt and Bash, in this order.
C30_Witness ==
    /\ input.rows = <<RowApt, RowShort, RowNoLink, RowBash>>
    /\ ret.kind = "parse_page" /\ ~ret.raised
    /\ ret.value = <<ParseRow(RowApt), ParseRow(RowBash)>>

\* C31: the retry state belongs to one request: on every page of a fetch
\* the sleeps are 2, 4, 8, 16 s from the first 429 of that page on, at most
\* four of them (five GETs), however many 429s the pages before it got.
C31_RetryStateIsPerRequest ==
    \A w \in Workers :
        /\ \A i \in DOMAIN ran[w].slept :
              /\ Len(ran[w].slept[i]) <= 4
              /\ \A j \in DOMAIN ran[w].slept[i] :
                    ran[w].slept[i][j] = <<2, 4, 8, 16>>[j]
        /\ th[w].pc = "request"
            => /\ th[w].attempt = Len(ran[w].slept[Len(th[w].offsets)])
               /\ th[w].gets = th[w].attempt

\* C31 witness: the first page came after four 429s, the second after none,
\* and the first 429 of the third page was followed by a sleep of 2 s.
C31_Witness ==
    \E w \in Workers :
        /\ th[w].pc = "request" /\ th[w].attempt = 1
        /\ ran[w].slept = <<<<2, 4, 8, 16>>, <<>>, <<2>>>>

\* C32: on DISTRO_VERSIONS x LANGUAGES the cache key is injective: the key
\* of a pair is the key of no other pair of the key space, the languages
\* with an underscore (pt_BR, zh_CN, zh_TW) included.
C32_CacheKeyInjective ==
    ret.kind = "key"
    => \A distro \in DISTRO_VERSIONS, lang \in LANGUAGES :
          _cache_key(distro, lang) = ret.value
          => distro = input.distro /\ lang = input.lang

\* C32 witness: the key of (noble, pt_BR) is "noble_pt_BR".
C32_Witness ==
    /\ ret.kind = "key"
    /\ input.distro = "noble" /\ input.lang = "pt_BR"
    /\ ret.value = "noble_pt_BR"

=============================================================================
